---- MODULE Spec2Model ----
(***************************************************************************)
(* Model of the dalle-mini scraper pipeline (src/main.py): an orchestrator *)
(* run() that seeds a bounded descriptions queue, a pool of generate       *)
(* workers, a pool of upscale workers and one store worker, connected by   *)
(* asyncio queues.  Each `await` of the source is one step of the model;   *)
(* statements without an await run together with the await before them.    *)
(***************************************************************************)
EXTENDS Integers, Sequences, FiniteSets, Bags, TLC

(* ---- program constants and bounds of the model ------------------------- *)

\* number of generate workers and maxsize of the descriptions queue
dallemini_workers_count == 5

\* number of upscale workers and maxsize of the upscale queue
upscaler_workers_count == 5

\* largest number of descriptions one run asks for
MaxRequests == 6

\* largest number of images the generation calls of one run return in all
MaxImages == 1

\* largest number of images of a run in which no call fails
MaxOkImages == 2

\* number of images every generation call returns in a run in which no call fails
ImagesPerCall == 1

(* ---- inputs ------------------------------------------------------------ *)

\* strings are sequences of one-character strings
PhraseCat == <<"c">>
PhraseDog == <<"d", " ", "g">>
SuffixSpace == <<"i", " ", "s">>

PhraseLists == {<<PhraseCat>>, <<PhraseCat, PhraseDog>>}
SuffixLists == {<<SuffixSpace>>}

(* ---- pure helpers ------------------------------------------------------ *)

\* str.replace(old, new) for a one-character old; new is a string
RECURSIVE Replace(_, _, _)
Replace(s, old, new) ==
    IF s = <<>> THEN <<>>
    ELSE (IF Head(s) = old THEN new ELSE <<Head(s)>>) \o Replace(Tail(s), old, new)

\* ", ".join([phrase, suffix])
JoinText(phrase, suffix) == phrase \o <<",", " ">> \o suffix

\* description.replace(",","").replace(" ", "_")
FolderName(description) == Replace(Replace(description, ",", <<>>), " ", <<"_">>)

\* number of put() calls produce_scrape_request_async makes
TotalRequests(ph, su, count) == Len(ph) * Len(su) * count

\* variant of RequestText: the phrase loop never leaves its first phrase
RequestTextFirstPhrase(ph, su, count, n) ==
    JoinText(ph[1], su[((n \div count) % Len(su)) + 1])

\* the text of the n-th put (n = 0, 1, ...) of the nested loops
RequestText(ph, su, count, n) ==
    JoinText(ph[(n \div (Len(su) * count)) + 1], su[((n \div count) % Len(su)) + 1])

Channels == {"descriptions", "upscale", "store"}

\* the payloads the adapters hand back
GeneratedImage == "b64"
UpscaledImage == "up64"

StoreRequest(folder, id, image_b64, is_upscaled) ==
    [folder |-> folder, id |-> id, image_b64 |-> image_b64, is_upscaled |-> is_upscaled]

UpscaleRequest(folder, id, image_b64) ==
    [folder |-> folder, id |-> id, image_b64 |-> image_b64]

\* the file store_generated_image writes
FilePath(request) ==
    [folder |-> request.folder, id |-> request.id,
     suffix |-> IF request.is_upscaled THEN "big" ELSE "small"]

NoRequest == [id |-> 0]
NoText == <<>>

(* ---- state ------------------------------------------------------------- *)

\* The workers of a pool run the same coroutine and differ only in their local
\* state, so a pool is the bag of its tasks' local states.
VARIABLES
    phrases, suffixes, amount,      \* arguments of run
    run_pc, produced,               \* position of run / of the producer loops
    descriptions_queue,             \* asyncio.Queue(maxsize=dallemini_workers_count)
    upscale_thumbnails_queue,       \* asyncio.Queue(maxsize=upscaler_workers_count)
    store_thumbnails_queue,         \* asyncio.Queue()
    generator_tasks,                \* bag of the generate workers' local states
    upscaler_tasks,                 \* bag of the upscale workers' local states
    saving_task,                    \* local state of the store worker
    next_id,                        \* ids handed out so far (uuid4 is fresh)
    puts, gets, dones,              \* per channel: completed put / get / task_done calls
    store_puts, upscale_puts,       \* every request ever put on the channel
    images_returned,                \* images returned by successful generation calls
    generations,                    \* generation calls that returned / raised so far
    upscale_ok, upscale_failed,     \* ids whose upscaling call succeeded / failed
    files                           \* bag of the paths the store worker has written

inputVars == <<phrases, suffixes, amount>>
runVars == <<run_pc, produced>>
queueVars == <<descriptions_queue, upscale_thumbnails_queue, store_thumbnails_queue>>
taskVars == <<generator_tasks, upscaler_tasks, saving_task>>
historyVars == <<puts, gets, dones, store_puts, upscale_puts, images_returned,
                 generations,
                 upscale_ok, upscale_failed, files>>

vars == <<inputVars, runVars, queueVars, taskVars, next_id, historyVars>>

\* local state of a generate worker: position, description held, images still to
\* hand on, id of the image being handed on
GenTask(pc, description, images, id) ==
    [pc |-> pc, description |-> description, images |-> images, id |-> id]

\* local state of an upscale worker: position and request held
UpscaleTask(pc, request) == [pc |-> pc, request |-> request]

\* local state of the store worker
SavingTask(pc, request) == [pc |-> pc, request |-> request]

\* variant of Pool: one task more than the configured count is started
PoolOneMore(n, t) == [x \in {t} |-> n + 1]

\* a pool of n tasks, all in local state t
Pool(n, t) == IF n = 0 THEN EmptyBag ELSE [x \in {t} |-> n]

\* the number of tasks of a pool that are at position pc
TasksAt(pool, pc) ==
    BagCardinality([t \in {x \in BagToSet(pool) : x.pc = pc} |-> pool[t]])

\* one task of the pool goes from local state t to local state t2
Step(pool, t, t2) == (pool (-) SetToBag({t})) (+) SetToBag({t2})

\* maxsize of the two bounded queues
DescriptionsMaxsize == dallemini_workers_count
UpscaleMaxsize == upscaler_workers_count

\* asyncio.Queue._unfinished_tasks
unfinished_tasks(ch) == puts[ch] - dones[ch]

\* asyncio.Queue.task_done
task_done(d, ch) == [d EXCEPT ![ch] = @ + 1]

Count(c, ch) == [c EXCEPT ![ch] = @ + 1]

Init ==
    /\ phrases \in PhraseLists
    /\ suffixes \in SuffixLists
    /\ amount \in 0 .. MaxRequests
    /\ TotalRequests(phrases, suffixes, amount) <= MaxRequests
    /\ run_pc = "produce"
    /\ produced = 0
    /\ descriptions_queue = <<>>
    /\ upscale_thumbnails_queue = <<>>
    /\ store_thumbnails_queue = <<>>
    /\ generator_tasks = Pool(dallemini_workers_count, GenTask("get", NoText, 0, 0))
    /\ upscaler_tasks = Pool(upscaler_workers_count, UpscaleTask("get", NoRequest))
    /\ saving_task = SavingTask("get", NoRequest)
    /\ next_id = 0
    /\ puts = [ch \in Channels |-> 0]
    /\ gets = [ch \in Channels |-> 0]
    /\ dones = [ch \in Channels |-> 0]
    /\ store_puts = {}
    /\ upscale_puts = {}
    /\ images_returned = 0
    /\ generations = [ok |-> 0, failed |-> 0]
    /\ upscale_ok = {}
    /\ upscale_failed = {}
    /\ files = EmptyBag

(* ---- run and produce_scrape_request_async ------------------------------ *)

\* await queue.put(text) in the nested loops
ProducePut ==
    /\ run_pc = "produce"
    /\ produced < TotalRequests(phrases, suffixes, amount)
    /\ Len(descriptions_queue) < DescriptionsMaxsize
    /\ descriptions_queue' =
           Append(descriptions_queue, RequestText(phrases, suffixes, amount, produced))
    /\ produced' = produced + 1
    /\ puts' = Count(puts, "descriptions")
    /\ UNCHANGED <<inputVars, run_pc, upscale_thumbnails_queue, store_thumbnails_queue,
                   taskVars, next_id, gets, dones, store_puts,
                   upscale_puts, images_returned, generations, upscale_ok, upscale_failed, files>>

\* the loops are over: run goes on to descriptions_queue.join()
ProduceReturn ==
    /\ run_pc = "produce"
    /\ produced = TotalRequests(phrases, suffixes, amount)
    /\ run_pc' = "join_descriptions"
    /\ UNCHANGED <<inputVars, produced, queueVars, taskVars, next_id,
                   historyVars>>

\* variant of JoinStage: the last join waits for the upscale queue again
JoinStageNeverStore(pc) ==
    CASE pc = "join_descriptions" -> "descriptions"
      [] pc = "join_upscale" -> "upscale"
      [] pc = "join_store" -> "upscale"

\* the queue run is waiting to join next
JoinStage(pc) ==
    CASE pc = "join_descriptions" -> "descriptions"
      [] pc = "join_upscale" -> "upscale"
      [] pc = "join_store" -> "store"

\* variant of AfterJoin: run returns without joining the store queue
AfterJoinSkipsStore(pc) ==
    CASE pc = "join_descriptions" -> "join_upscale"
      [] pc = "join_upscale" -> "returned"
      [] pc = "join_store" -> "returned"

\* where run continues after a join returns
AfterJoin(pc) ==
    CASE pc = "join_descriptions" -> "join_upscale"
      [] pc = "join_upscale" -> "join_store"
      [] pc = "join_store" -> "returned"

\* await <queue>.join() returns once the queue has no unfinished task
Join ==
    /\ run_pc \in {"join_descriptions", "join_upscale", "join_store"}
    /\ unfinished_tasks(JoinStage(run_pc)) = 0
    /\ run_pc' = AfterJoin(run_pc)
    /\ UNCHANGED <<inputVars, produced, queueVars, taskVars, next_id,
                   historyVars>>

(* ---- produce_images_async ---------------------------------------------- *)

\* description = await descriptions_queue.get()
GenGet(t) ==
    /\ t.pc = "get"
    /\ descriptions_queue # <<>>
    /\ generator_tasks' =
           Step(generator_tasks, t, GenTask("generate", Head(descriptions_queue), 0, 0))
    /\ descriptions_queue' = Tail(descriptions_queue)
    /\ gets' = Count(gets, "descriptions")
    /\ UNCHANGED <<inputVars, runVars, upscale_thumbnails_queue, store_thumbnails_queue,
                   upscaler_tasks, saving_task, next_id, puts, dones, store_puts,
                   upscale_puts, images_returned, generations, upscale_ok, upscale_failed, files>>

\* variant of GenLoop: the description is acknowledged when the response
\* arrives, before its images are handed on
GenLoopAcksFirst(t, left) ==
    /\ dones' = IF t.pc = "generate" THEN task_done(dones, "descriptions") ELSE dones
    /\ generator_tasks' =
           IF left = 0
           THEN Step(generator_tasks, t, GenTask("get", NoText, 0, 0))
           ELSE Step(generator_tasks, t, GenTask("store_put", t.description, left, 0))

\* the worker's local state while it hands on the images that are left, or back
\* at get() after descriptions_queue.task_done() when none is left
GenLoop(t, left) ==
    IF left = 0
    THEN /\ dones' = task_done(dones, "descriptions")
         /\ generator_tasks' = Step(generator_tasks, t, GenTask("get", NoText, 0, 0))
    ELSE /\ dones' = dones
         /\ generator_tasks' =
                Step(generator_tasks, t, GenTask("store_put", t.description, left, 0))

\* images = await api.generate_image_async(...) returns k images
Generated(t, k) ==
    /\ t.pc = "generate"
    /\ images_returned' = images_returned + k
    /\ generations' = [generations EXCEPT !.ok = @ + 1]
    /\ GenLoop(t, k)
    /\ UNCHANGED <<inputVars, runVars, queueVars, upscaler_tasks, saving_task, next_id,
                   puts, gets, store_puts, upscale_puts, upscale_ok, upscale_failed,
                   files>>

\* the same, while the images of the run stay within MaxImages
GenerateOk(t, k) ==
    /\ images_returned + k <= MaxImages
    /\ Generated(t, k)

\* variant of GenerateFail: the failure branch acknowledges the description
\* and falls through to the acknowledgement at the end of the loop body
GenerateFailAcksTwice(t) ==
    /\ t.pc = "generate"
    /\ dones' = task_done(task_done(dones, "descriptions"), "descriptions")
    /\ generator_tasks' = Step(generator_tasks, t, GenTask("get", NoText, 0, 0))
    /\ generations' = [generations EXCEPT !.failed = @ + 1]
    /\ UNCHANGED <<inputVars, runVars, queueVars, upscaler_tasks, saving_task, next_id,
                   puts, gets, store_puts, upscale_puts, images_returned, upscale_ok,
                   upscale_failed, files>>

\* variant of GenerateFail: the failure branch returns without task_done()
GenerateFailNoAck(t) ==
    /\ t.pc = "generate"
    /\ generator_tasks' = Step(generator_tasks, t, GenTask("returned", NoText, 0, 0))
    /\ generations' = [generations EXCEPT !.failed = @ + 1]
    /\ UNCHANGED <<inputVars, runVars, queueVars, upscaler_tasks, saving_task, next_id,
                   puts, gets, dones, store_puts, upscale_puts, images_returned, upscale_ok,
                   upscale_failed, files>>

\* api.generate_image_async raises: descriptions_queue.task_done() and return
GenerateFail(t) ==
    /\ t.pc = "generate"
    /\ dones' = task_done(dones, "descriptions")
    /\ generator_tasks' = Step(generator_tasks, t, GenTask("returned", NoText, 0, 0))
    /\ generations' = [generations EXCEPT !.failed = @ + 1]
    /\ UNCHANGED <<inputVars, runVars, queueVars, upscaler_tasks, saving_task, next_id,
                   puts, gets, store_puts, upscale_puts, images_returned, upscale_ok,
                   upscale_failed, files>>

\* variant of GenStorePut: the id is drawn but no store request is put
GenStorePutSkipped(t) ==
    /\ t.pc = "store_put"
    /\ next_id' = next_id + 1
    /\ generator_tasks' =
           Step(generator_tasks, t, GenTask("upscale_put", t.description, t.images, next_id + 1))
    /\ UNCHANGED <<inputVars, runVars, queueVars, upscaler_tasks, saving_task, puts, gets,
                   dones, store_puts, upscale_puts, images_returned, generations, upscale_ok,
                   upscale_failed, files>>

\* id = str(uuid.uuid4()); await store_queue.put(StoreRequest(..., is_upscaled=False))
GenStorePut(t) ==
    /\ t.pc = "store_put"
    /\ LET id == next_id + 1
           request == StoreRequest(FolderName(t.description), id, GeneratedImage, FALSE)
       IN /\ next_id' = id
          /\ generator_tasks' =
                 Step(generator_tasks, t, GenTask("upscale_put", t.description, t.images, id))
          /\ store_thumbnails_queue' = Append(store_thumbnails_queue, request)
          /\ store_puts' = store_puts \cup {request}
    /\ puts' = Count(puts, "store")
    /\ UNCHANGED <<inputVars, runVars, descriptions_queue, upscale_thumbnails_queue,
                   upscaler_tasks, saving_task, gets, dones, upscale_puts,
                   images_returned, generations, upscale_ok, upscale_failed, files>>

\* variant of GenUpscalePut: the put does not wait for a free slot
GenUpscalePutNoWait(t) ==
    /\ t.pc = "upscale_put"
    /\ LET request == UpscaleRequest(FolderName(t.description), t.id, GeneratedImage)
       IN /\ upscale_thumbnails_queue' = Append(upscale_thumbnails_queue, request)
          /\ upscale_puts' = upscale_puts \cup {request}
    /\ puts' = Count(puts, "upscale")
    /\ GenLoop(t, t.images - 1)
    /\ UNCHANGED <<inputVars, runVars, descriptions_queue, store_thumbnails_queue,
                   upscaler_tasks, saving_task, next_id, gets, store_puts,
                   images_returned, generations, upscale_ok, upscale_failed, files>>

\* await upscale_queue.put(UpscaleRequest(...)); then the next image, or the end of the loop
GenUpscalePut(t) ==
    /\ t.pc = "upscale_put"
    /\ Len(upscale_thumbnails_queue) < UpscaleMaxsize
    /\ LET request == UpscaleRequest(FolderName(t.description), t.id, GeneratedImage)
       IN /\ upscale_thumbnails_queue' = Append(upscale_thumbnails_queue, request)
          /\ upscale_puts' = upscale_puts \cup {request}
    /\ puts' = Count(puts, "upscale")
    /\ GenLoop(t, t.images - 1)
    /\ UNCHANGED <<inputVars, runVars, descriptions_queue, store_thumbnails_queue,
                   upscaler_tasks, saving_task, next_id, gets, store_puts,
                   images_returned, generations, upscale_ok, upscale_failed, files>>

(* ---- produce_upscaled_images ------------------------------------------- *)

\* request = await upscale_queue.get()
UpGet(t) ==
    /\ t.pc = "get"
    /\ upscale_thumbnails_queue # <<>>
    /\ upscaler_tasks' =
           Step(upscaler_tasks, t, UpscaleTask("upscale", Head(upscale_thumbnails_queue)))
    /\ upscale_thumbnails_queue' = Tail(upscale_thumbnails_queue)
    /\ gets' = Count(gets, "upscale")
    /\ UNCHANGED <<inputVars, runVars, descriptions_queue, store_thumbnails_queue,
                   generator_tasks, saving_task, next_id, puts, dones, store_puts,
                   upscale_puts, images_returned, generations, upscale_ok, upscale_failed, files>>

\* upscaled = await api.upscale_async(...) returns
UpscaleOk(t) ==
    /\ t.pc = "upscale"
    /\ upscaler_tasks' = Step(upscaler_tasks, t, UpscaleTask("store_put", t.request))
    /\ upscale_ok' = upscale_ok \cup {t.request.id}
    /\ UNCHANGED <<inputVars, runVars, queueVars, generator_tasks, saving_task, next_id,
                   puts, gets, dones, store_puts, upscale_puts, images_returned, generations,
                   upscale_failed, files>>

\* variant of UpscaleFail: the store request is put although the call failed
UpscaleFailStillStores(t) ==
    /\ t.pc = "upscale"
    /\ upscale_failed' = upscale_failed \cup {t.request.id}
    /\ LET request == StoreRequest(t.request.folder, t.request.id, UpscaledImage, TRUE)
       IN /\ store_thumbnails_queue' = Append(store_thumbnails_queue, request)
          /\ store_puts' = store_puts \cup {request}
    /\ puts' = Count(puts, "store")
    /\ dones' = task_done(dones, "upscale")
    /\ upscaler_tasks' = Step(upscaler_tasks, t, UpscaleTask("get", NoRequest))
    /\ UNCHANGED <<inputVars, runVars, descriptions_queue, upscale_thumbnails_queue,
                   generator_tasks, saving_task, next_id, gets, upscale_puts,
                   images_returned, generations, upscale_ok, files>>

\* variant of UpscaleFail: the except branch acknowledges and returns, as the
\* generate worker's does
UpscaleFailReturns(t) ==
    /\ t.pc = "upscale"
    /\ upscale_failed' = upscale_failed \cup {t.request.id}
    /\ dones' = task_done(dones, "upscale")
    /\ upscaler_tasks' = Step(upscaler_tasks, t, UpscaleTask("returned", NoRequest))
    /\ UNCHANGED <<inputVars, runVars, queueVars, generator_tasks, saving_task, next_id,
                   puts, gets, store_puts, upscale_puts, images_returned, generations, upscale_ok,
                   files>>

\* variant of UpscaleFail: the except branch leaves the loop body without task_done()
UpscaleFailNoAck(t) ==
    /\ t.pc = "upscale"
    /\ upscale_failed' = upscale_failed \cup {t.request.id}
    /\ upscaler_tasks' = Step(upscaler_tasks, t, UpscaleTask("get", NoRequest))
    /\ UNCHANGED <<inputVars, runVars, queueVars, generator_tasks, saving_task, next_id,
                   puts, gets, dones, store_puts, upscale_puts, images_returned, generations,
                   upscale_ok, files>>

\* variant of UpscaleFail: after the failure the worker submits the request again
UpscaleFailRetries(t) ==
    /\ t.pc = "upscale"
    /\ upscale_failed' = upscale_failed \cup {t.request.id}
    /\ UNCHANGED <<inputVars, runVars, queueVars, taskVars, next_id, puts, gets, dones,
                   store_puts, upscale_puts, images_returned, generations, upscale_ok, files>>

\* api.upscale_async raises: the except branch, then upscale_queue.task_done()
UpscaleFail(t) ==
    /\ t.pc = "upscale"
    /\ upscale_failed' = upscale_failed \cup {t.request.id}
    /\ dones' = task_done(dones, "upscale")
    /\ upscaler_tasks' = Step(upscaler_tasks, t, UpscaleTask("get", NoRequest))
    /\ UNCHANGED <<inputVars, runVars, queueVars, generator_tasks, saving_task, next_id,
                   puts, gets, store_puts, upscale_puts, images_returned, generations, upscale_ok,
                   files>>

\* await store_queue.put(StoreRequest(..., is_upscaled=True)); upscale_queue.task_done()
UpStorePut(t) ==
    /\ t.pc = "store_put"
    /\ LET request == StoreRequest(t.request.folder, t.request.id, UpscaledImage, TRUE)
       IN /\ store_thumbnails_queue' = Append(store_thumbnails_queue, request)
          /\ store_puts' = store_puts \cup {request}
    /\ puts' = Count(puts, "store")
    /\ dones' = task_done(dones, "upscale")
    /\ upscaler_tasks' = Step(upscaler_tasks, t, UpscaleTask("get", NoRequest))
    /\ UNCHANGED <<inputVars, runVars, descriptions_queue, upscale_thumbnails_queue,
                   generator_tasks, saving_task, next_id, gets, upscale_puts,
                   images_returned, generations, upscale_ok, upscale_failed, files>>

(* ---- produce_stored_files_async ---------------------------------------- *)

\* variant of StoreOk: the store worker takes the newest request of the queue
StoreOkTakesLast ==
    /\ saving_task.pc = "get"
    /\ store_thumbnails_queue # <<>>
    /\ store_thumbnails_queue' =
           SubSeq(store_thumbnails_queue, 1, Len(store_thumbnails_queue) - 1)
    /\ gets' = Count(gets, "store")
    /\ files' = files (+)
           SetToBag({FilePath(store_thumbnails_queue[Len(store_thumbnails_queue)])})
    /\ dones' = task_done(dones, "store")
    /\ UNCHANGED <<inputVars, runVars, descriptions_queue, upscale_thumbnails_queue,
                   taskVars, next_id, puts, store_puts, upscale_puts, images_returned, generations,
                   upscale_ok, upscale_failed>>

\* request = await store_queue.get(); store_generated_image(request) writes the
\* file; store_queue.task_done()
StoreOk ==
    /\ saving_task.pc = "get"
    /\ store_thumbnails_queue # <<>>
    /\ store_thumbnails_queue' = Tail(store_thumbnails_queue)
    /\ gets' = Count(gets, "store")
    /\ files' = files (+) SetToBag({FilePath(Head(store_thumbnails_queue))})
    /\ dones' = task_done(dones, "store")
    /\ UNCHANGED <<inputVars, runVars, descriptions_queue, upscale_thumbnails_queue,
                   taskVars, next_id, puts, store_puts, upscale_puts, images_returned, generations,
                   upscale_ok, upscale_failed>>

\* request = await store_queue.get(); store_generated_image(request) raises:
\* nothing catches it, the task ends holding the request
StoreFail ==
    /\ saving_task.pc = "get"
    /\ store_thumbnails_queue # <<>>
    /\ store_thumbnails_queue' = Tail(store_thumbnails_queue)
    /\ gets' = Count(gets, "store")
    /\ saving_task' = SavingTask("raised", Head(store_thumbnails_queue))
    /\ UNCHANGED <<inputVars, runVars, descriptions_queue, upscale_thumbnails_queue,
                   generator_tasks, upscaler_tasks, next_id, puts, dones, store_puts,
                   upscale_puts, images_returned, generations, upscale_ok, upscale_failed, files>>

(* ---- the system -------------------------------------------------------- *)

GenTasks == BagToSet(generator_tasks)

UpscaleTasks == BagToSet(upscaler_tasks)

Next ==
    \/ ProducePut
    \/ ProduceReturn
    \/ Join
    \/ \E t \in GenTasks : GenGet(t)
    \/ \E t \in GenTasks : \E k \in 0 .. MaxImages : GenerateOk(t, k)
    \/ \E t \in GenTasks : GenerateFail(t)
    \/ \E t \in GenTasks : GenStorePut(t)
    \/ \E t \in GenTasks : GenUpscalePut(t)
    \/ \E t \in UpscaleTasks : UpGet(t)
    \/ \E t \in UpscaleTasks : UpscaleOk(t)
    \/ \E t \in UpscaleTasks : UpscaleFail(t)
    \/ \E t \in UpscaleTasks : UpStorePut(t)
    \/ StoreOk
    \/ StoreFail

Spec == Init /\ [][Next]_vars

Producer == ProducePut \/ ProduceReturn \/ Join

GenerateWorkers ==
    \E t \in GenTasks :
        \/ GenGet(t)
        \/ \E k \in 0 .. MaxImages : GenerateOk(t, k)
        \/ GenerateFail(t)
        \/ GenStorePut(t)
        \/ GenUpscalePut(t)

UpscaleWorkers ==
    \E t \in UpscaleTasks : UpGet(t) \/ UpscaleOk(t) \/ UpscaleFail(t) \/ UpStorePut(t)

StoreWorker == StoreOk \/ StoreFail

\* the event loop runs every task that is ready, and every adapter call returns
FairSpec ==
    /\ Spec
    /\ WF_vars(Producer)
    /\ WF_vars(GenerateWorkers)
    /\ WF_vars(UpscaleWorkers)
    /\ WF_vars(StoreWorker)

TypeOK ==
    /\ run_pc \in {"produce", "join_descriptions", "join_upscale", "join_store", "returned"}
    /\ \A t \in GenTasks : t.pc \in {"get", "generate", "store_put", "upscale_put", "returned"}
    /\ \A t \in UpscaleTasks : t.pc \in {"get", "upscale", "store_put"}
    /\ saving_task.pc \in {"get", "raised"}
    /\ BagCardinality(generator_tasks) = dallemini_workers_count
    /\ BagCardinality(upscaler_tasks) = upscaler_workers_count

(* ---- vocabulary of the properties -------------------------------------- *)

\* generate / upscale workers at position pc
GenAt(pc) == TasksAt(generator_tasks, pc)
UpAt(pc) == TasksAt(upscaler_tasks, pc)

Returned == run_pc = "returned"

SmallPuts == {r \in store_puts : ~r.is_upscaled}
BigPuts == {r \in store_puts : r.is_upscaled}

Written == BagToSet(files)
SmallIds == {p.id : p \in {q \in Written : q.suffix = "small"}}
BigIds == {p.id : p \in {q \in Written : q.suffix = "big"}}

\* the upscale requests that are queued or held by an upscale worker
UpscaleHeld == {t.request : t \in {x \in UpscaleTasks : x.pc # "get"}}
UpscaleQueued == {upscale_thumbnails_queue[i] : i \in 1 .. Len(upscale_thumbnails_queue)}

HasSmallPut(r) ==
    \E q \in SmallPuts : q.id = r.id /\ q.folder = r.folder

(* ---- termination and failure isolation --------------------------------- *)

\* C1: under fair scheduling, with adapter calls that always return, run
\* eventually returns, whatever generation, upscale and store calls fail.
C1_RunEventuallyReturns == <>Returned

\* C2: generation failures are isolated: unless a store call fails, every
\* description of the input is eventually put and retrieved by a generate
\* worker, every store request put is processed and run returns, whichever
\* generation calls fail.
C2_GenerationFailuresIsolated ==
    <>(\/ saving_task.pc = "raised"
       \/ /\ Returned
          /\ gets["descriptions"] = TotalRequests(phrases, suffixes, amount)
          /\ dones["store"] = puts["store"])

\* C3: in every reachable state all generate workers are still running
\* their loop: none has left it after a failed generation call.
C3_GenerateWorkersStayAlive == GenAt("returned") = 0

\* C4: a failed store call costs only its own variant: in every reachable
\* state the store worker is still in its loop and has acknowledged every
\* store request it retrieved.
C4_StoreWorkerSurvivesFailure ==
    /\ saving_task.pc = "get"
    /\ dones["store"] = gets["store"]

(* ---- upscale failures and stored files --------------------------------- *)

\* the step in which the upscaling call for id fails
UpscaleFails(id) == id \in upscale_failed' /\ id \notin upscale_failed

\* C5: when the upscaling call for a request fails, the worker puts nothing
\* on the store channel, calls task_done() on the upscale channel once and is
\* back at get(); the small-variant store request of that id was put before,
\* and no upscaled store request of that id is ever put.
C5_UpscaleFailureDropsRequest ==
    /\ [][\A id \in 1 .. next_id :
            UpscaleFails(id) =>
              /\ store_thumbnails_queue' = store_thumbnails_queue
              /\ store_puts' = store_puts
              /\ puts' = puts
              /\ dones' = [dones EXCEPT !["upscale"] = @ + 1]
              /\ UpAt("get")' = UpAt("get") + 1
              /\ \E r \in SmallPuts : r.id = id]_vars
    /\ [](\A r \in BigPuts : r.id \notin upscale_failed)
    /\ [](dones["upscale"] + UpAt("upscale") + UpAt("store_put") = gets["upscale"])

\* an upscaling call has failed and the small variant of that image is on disk
C5_Witness ==
    \E id \in upscale_failed : id \in SmallIds /\ id \notin BigIds /\ UpAt("get") = upscaler_workers_count

\* C6: no id ever gets more than one small and one big file, and once run
\* has returned every image a generation call returned has exactly one
\* small file, and a big file if and only if its upscaling call succeeded.
C6_StoredFiles ==
    /\ \A p \in Written : files[p] = 1
    /\ \A p, q \in Written : (p.id = q.id /\ p.suffix = q.suffix) => p = q
    /\ Returned =>
         /\ SmallIds = 1 .. images_returned
         /\ BigIds = upscale_ok
         /\ BigIds \cap upscale_failed = {}
         /\ upscale_ok \cup upscale_failed = SmallIds

\* run has returned with an upscaled image on disk
C6_Witness == Returned /\ BigIds # {}

(* ---- channel accounting ------------------------------------------------ *)

\* C7: on every channel task_done() calls never exceed completed get() calls,
\* which never exceed completed put() calls; once run has returned the
\* task_done() calls equal the put() calls.
C7_ChannelAccounting ==
    \A ch \in Channels :
        /\ dones[ch] <= gets[ch]
        /\ gets[ch] <= puts[ch]
        /\ Returned => dones[ch] = puts[ch]

\* run has returned after items went through all three channels
C7_Witness == Returned /\ \A ch \in Channels : puts[ch] > 0

\* C8: at most dallemini_workers_count generation calls and at most
\* upscaler_workers_count upscaling calls are in progress at any time.
C8_CallsInFlight ==
    /\ GenAt("generate") <= dallemini_workers_count
    /\ UpAt("upscale") <= upscaler_workers_count

\* every generate worker has a generation call in progress, and an upscaling
\* call is in progress as well
C8_Witness == GenAt("generate") = dallemini_workers_count /\ UpAt("upscale") > 0

(* ---- order of the stages ----------------------------------------------- *)

\* C9: once descriptions_queue.join() has returned nothing more is put on
\* the upscale channel and no small-variant store request is put; once
\* upscale_thumbnails_queue.join() has returned nothing more is put on the
\* store channel.
C9_StagedJoins ==
    [][/\ run_pc \in {"join_upscale", "join_store", "returned"} =>
            /\ puts'["upscale"] = puts["upscale"]
            /\ upscale_puts' = upscale_puts
            /\ SmallPuts' = SmallPuts
       /\ run_pc \in {"join_store", "returned"} =>
            /\ puts'["store"] = puts["store"]
            /\ store_puts' = store_puts]_vars

\* the descriptions join has returned while upscale requests are outstanding
C9_Witness == run_pc = "join_upscale" /\ unfinished_tasks("upscale") > 0

\* C10: every upscale request ever put has a small-variant store request of
\* the same id and folder that was put on the store channel before it.
C10_SmallBeforeUpscale ==
    /\ [][\A r \in upscale_puts' \ upscale_puts : HasSmallPut(r)]_vars
    /\ [](\A r \in upscale_puts \cup UpscaleQueued \cup UpscaleHeld : HasSmallPut(r))

\* an upscale request has been put and is held by an upscale worker
C10_Witness == upscale_puts # {} /\ UpscaleHeld # {}

(* ---- runs in which no adapter call fails ------------------------------- *)

InitOk == Init /\ TotalRequests(phrases, suffixes, amount) * ImagesPerCall <= MaxOkImages

\* every generation call returns ImagesPerCall images, no upscaling call and
\* no store call raises
NextOk ==
    \/ ProducePut
    \/ ProduceReturn
    \/ Join
    \/ \E t \in GenTasks : GenGet(t)
    \/ \E t \in GenTasks : Generated(t, ImagesPerCall)
    \/ \E t \in GenTasks : GenStorePut(t)
    \/ \E t \in GenTasks : GenUpscalePut(t)
    \/ \E t \in UpscaleTasks : UpGet(t)
    \/ \E t \in UpscaleTasks : UpscaleOk(t)
    \/ \E t \in UpscaleTasks : UpStorePut(t)
    \/ StoreOk

SpecOk == InitOk /\ [][NextOk]_vars

\* the ids that have a file of the given variant in the folder of a description
IdsIn(description, suffix) ==
    {p.id : p \in {q \in Written : q.folder = FolderName(description) /\ q.suffix = suffix}}

\* C11: the orchestrator puts |phrases| x |suffixes| x amount descriptions,
\* never more; when no call fails and every generation call returns
\* ImagesPerCall images, run returns with that many times ImagesPerCall
\* distinct ids stored, amount x ImagesPerCall of them in the folder of each
\* (phrase, suffix) pair.
C11_RequestsAndIds ==
    /\ puts["descriptions"] = produced
    /\ produced <= TotalRequests(phrases, suffixes, amount)
    /\ run_pc # "produce" => produced = Len(phrases) * Len(suffixes) * amount
    /\ Returned =>
         /\ Cardinality(SmallIds \cup BigIds) =
                Len(phrases) * Len(suffixes) * amount * ImagesPerCall
         /\ \A i \in 1 .. Len(phrases) : \A j \in 1 .. Len(suffixes) :
                /\ Cardinality(IdsIn(JoinText(phrases[i], suffixes[j]), "small")) =
                       amount * ImagesPerCall
                /\ IdsIn(JoinText(phrases[i], suffixes[j]), "big") =
                       IdsIn(JoinText(phrases[i], suffixes[j]), "small")

\* run has returned for one phrase, one suffix and amount 2: two ids in one folder
C11_Witness ==
    /\ Returned
    /\ Len(phrases) = 1 /\ Len(suffixes) = 1 /\ amount = 2
    /\ Cardinality(IdsIn(JoinText(phrases[1], suffixes[1]), "small")) = 2 * ImagesPerCall

(* ---- an adapter call that never returns -------------------------------- *)

\* no call of the run hangs so far
NoneHung == GenAt("hung") = 0 /\ UpAt("hung") = 0

\* api.generate_image_async never returns: the worker stays in its call
GenerateHang(t) ==
    /\ t.pc = "generate"
    /\ NoneHung
    /\ generator_tasks' = Step(generator_tasks, t, GenTask("hung", t.description, 0, 0))
    /\ UNCHANGED <<inputVars, runVars, queueVars, upscaler_tasks, saving_task, next_id,
                   historyVars>>

\* api.upscale_async never returns: the worker stays in its call
UpscaleHang(t) ==
    /\ t.pc = "upscale"
    /\ NoneHung
    /\ upscaler_tasks' = Step(upscaler_tasks, t, UpscaleTask("hung", t.request))
    /\ UNCHANGED <<inputVars, runVars, queueVars, generator_tasks, saving_task, next_id,
                   historyVars>>

\* the pipeline with at most one call of the run hanging
NextHang ==
    \/ Next
    \/ \E t \in GenTasks : GenerateHang(t)
    \/ \E t \in UpscaleTasks : UpscaleHang(t)

\* every task that is ready runs and every call but the hanging one returns
FairSpecHang ==
    /\ Init /\ [][NextHang]_vars
    /\ WF_vars(Producer)
    /\ WF_vars(GenerateWorkers)
    /\ WF_vars(UpscaleWorkers)
    /\ WF_vars(StoreWorker)

\* C12: a call that never returns stalls only its own worker: once a
\* generation (upscaling) call hangs, the other workers of the pool go on, so
\* that in the end the descriptions (upscale) queue is empty and the hanging
\* item is the only one of the channel that is not acknowledged.
C12_HangStallsOneWorker ==
    /\ [](GenAt("hung") = 1 =>
            <>[](descriptions_queue = <<>> /\ unfinished_tasks("descriptions") = 1))
    /\ [](UpAt("hung") = 1 =>
            <>[](upscale_thumbnails_queue = <<>> /\ unfinished_tasks("upscale") = 1))

(* ---- the state in which run returns ------------------------------------ *)

\* C13: once run has returned the three queues are empty, no worker holds an
\* item and every item put on a channel has been acknowledged; every store
\* request has been written to disk.
C13_DrainedOnReturn ==
    Returned =>
        /\ descriptions_queue = <<>>
        /\ upscale_thumbnails_queue = <<>>
        /\ store_thumbnails_queue = <<>>
        /\ GenAt("get") + GenAt("returned") = dallemini_workers_count
        /\ UpAt("get") = upscaler_workers_count
        /\ saving_task = SavingTask("get", NoRequest)
        /\ \A ch \in Channels : unfinished_tasks(ch) = 0 /\ gets[ch] = puts[ch]
        /\ BagCardinality(files) = puts["store"]
        /\ \A r \in store_puts : BagIn(FilePath(r), files)

\* run has returned after a failed generation call and a stored image
C13_Witness == Returned /\ GenAt("returned") > 0 /\ files # EmptyBag

(* ---- bounded channels --------------------------------------------------- *)

\* one generation call returns more images than the upscale queue holds
BurstImages == upscaler_workers_count + 1
MaxBurstImages == 6
MaxUpscaled == 1

\* images = await api.generate_image_async(...) returning a burst, in a run
\* whose descriptions all fit under MaxBurstImages
GenerateBurst(t) ==
    /\ images_returned = 0
    /\ TotalRequests(phrases, suffixes, amount) * BurstImages <= MaxBurstImages
    /\ Generated(t, BurstImages)

\* upscaled = await api.upscale_async(...), for at most MaxUpscaled requests of the run
UpscaleBurstOk(t) == Cardinality(upscale_ok) < MaxUpscaled /\ UpscaleOk(t)

\* the pipeline with a generation service that may also answer with a burst
NextBurst ==
    \/ ProducePut
    \/ ProduceReturn
    \/ Join
    \/ \E t \in GenTasks : GenGet(t)
    \/ \E t \in GenTasks : \E k \in 0 .. MaxImages : GenerateOk(t, k)
    \/ \E t \in GenTasks : GenerateBurst(t)
    \/ \E t \in GenTasks : GenerateFail(t)
    \/ \E t \in GenTasks : GenStorePut(t)
    \/ \E t \in GenTasks : GenUpscalePut(t)
    \/ \E t \in UpscaleTasks : UpGet(t)
    \/ \E t \in UpscaleTasks : UpscaleBurstOk(t)
    \/ \E t \in UpscaleTasks : UpscaleFail(t)
    \/ \E t \in UpscaleTasks : UpStorePut(t)
    \/ StoreOk
    \/ StoreFail

SpecBurst == Init /\ [][NextBurst]_vars

\* the producer is suspended in descriptions_queue.put
ProducerWaits ==
    /\ run_pc = "produce"
    /\ produced < TotalRequests(phrases, suffixes, amount)
    /\ Len(descriptions_queue) = DescriptionsMaxsize

\* a generate worker is suspended in upscale_queue.put
GenerateWaits ==
    GenAt("upscale_put") > 0 /\ Len(upscale_thumbnails_queue) = UpscaleMaxsize

\* C14: the descriptions queue never holds more than N items and the upscale
\* queue never more than M; a put on one of them completes only in a step that
\* starts with a free slot, so a put on a full queue waits for a get.
C14_BoundedChannels ==
    /\ [](/\ Len(descriptions_queue) <= dallemini_workers_count
          /\ Len(upscale_thumbnails_queue) <= upscaler_workers_count)
    /\ [][/\ puts'["descriptions"] # puts["descriptions"] =>
                 Len(descriptions_queue) < dallemini_workers_count
          /\ puts'["upscale"] # puts["upscale"] =>
                 Len(upscale_thumbnails_queue) < upscaler_workers_count
          /\ ProducerWaits /\ ~ProducerWaits' => gets'["descriptions"] # gets["descriptions"]
          /\ GenerateWaits /\ ~GenerateWaits' => gets'["upscale"] # gets["upscale"]]_vars

\* a generate worker waits on the full upscale queue, the producer having
\* returned
C14_Witness == GenerateWaits /\ run_pc # "produce"

(* ---- a failed generation call ------------------------------------------- *)

\* descriptions a generate worker has retrieved and not yet acknowledged
DescriptionsHeld == GenAt("generate") + GenAt("store_put") + GenAt("upscale_put")

\* C15: the step in which a generation call fails puts nothing on the store
\* and upscale channels and draws no id, and calls task_done() on the
\* descriptions channel once; the worker never acknowledges again for that
\* description, so every retrieved description is either still handled or
\* acknowledged exactly once, and requests are put only for returned images.
C15_FailedGenerationFrame ==
    /\ [][generations'.failed # generations.failed =>
              /\ UNCHANGED <<store_thumbnails_queue, upscale_thumbnails_queue, store_puts,
                             upscale_puts, next_id, puts, gets>>
              /\ dones' = [dones EXCEPT !["descriptions"] = @ + 1]]_vars
    /\ [](/\ dones["descriptions"] + DescriptionsHeld = gets["descriptions"]
          /\ Cardinality(SmallPuts) <= images_returned
          /\ Cardinality(upscale_puts) <= images_returned)

\* a generation call has failed, another has returned an image, and no
\* description is in a worker's hands
C15_Witness ==
    /\ generations.failed > 0
    /\ images_returned > 0
    /\ DescriptionsHeld = 0
    /\ gets["descriptions"] > generations.failed

(* ---- every item is retrieved once and submitted once -------------------- *)

\* the queue of a channel
Queue(ch) ==
    CASE ch = "descriptions" -> descriptions_queue
      [] ch = "upscale" -> upscale_thumbnails_queue
      [] ch = "store" -> store_thumbnails_queue

\* the upscale requests in a call to the upscaler, and the ids whose call is over
UpscaleCalling == {t.request : t \in {x \in UpscaleTasks : x.pc = "upscale"}}
UpscaleCalled == upscale_ok \cup upscale_failed

\* the store requests the store worker has retrieved
StoreRetrieved == BagCardinality(files) + (IF saving_task.pc = "raised" THEN 1 ELSE 0)

\* C16: a get takes exactly the head of its queue away, so every item put is
\* either still queued or was retrieved once; every upscale request is in one
\* place only (queued, in one worker's call, or done), a call that is over is
\* never made again, and each retrieved description and upscale request
\* accounts for exactly one adapter call; no file is written twice.
C16_RetrievedAndSubmittedOnce ==
    /\ [][\A ch \in Channels :
              gets'[ch] # gets[ch] =>
                  /\ gets'[ch] = gets[ch] + 1
                  /\ Queue(ch) # <<>>
                  /\ Queue(ch)' = Tail(Queue(ch))]_vars
    /\ [](/\ \A ch \in Channels : puts[ch] = gets[ch] + Len(Queue(ch))
          /\ Cardinality(UpscaleQueued) = Len(upscale_thumbnails_queue)
          /\ Cardinality(UpscaleCalling) = UpAt("upscale")
          /\ \A r \in upscale_puts :
                 Cardinality({place \in {"queued", "calling", "called"} :
                     \/ place = "queued" /\ r \in UpscaleQueued
                     \/ place = "calling" /\ r \in UpscaleCalling
                     \/ place = "called" /\ r.id \in UpscaleCalled}) = 1
          /\ upscale_ok \cap upscale_failed = {}
          /\ gets["upscale"] = UpAt("upscale") + Cardinality(UpscaleCalled)
          /\ gets["descriptions"] =
                 GenAt("generate") + generations.ok + generations.failed
          /\ gets["store"] = StoreRetrieved
          /\ \A path \in Written : CopiesIn(path, files) = 1)

\* several upscale workers are in a call at once, after a call has failed
\* and a file has been written
C16_Witness ==
    /\ UpAt("upscale") > 1
    /\ upscale_failed # {}
    /\ files # EmptyBag

(* ---- termination while a generate worker is left ------------------------ *)

\* C17: under fair scheduling, with adapter calls that always return, run
\* eventually returns unless dallemini_workers_count generation calls fail or
\* the store call fails; upscale failures do not matter.
C17_ReturnsWhileAWorkerIsLeft ==
    <>(\/ Returned
       \/ generations.failed >= dallemini_workers_count
       \/ saving_task.pc = "raised")

\* run has returned with more descriptions than generate workers, all but one
\* generate worker gone, and a failed upscaling call
C17_Witness ==
    /\ Returned
    /\ produced > dallemini_workers_count
    /\ generations.failed = dallemini_workers_count - 1
    /\ upscale_failed # {}

(* ---- the upscale channel always drains ---------------------------------- *)

GenerateWorkersBurst ==
    \E t \in GenTasks :
        \/ GenGet(t)
        \/ \E k \in 0 .. MaxImages : GenerateOk(t, k)
        \/ GenerateBurst(t)
        \/ GenerateFail(t)
        \/ GenStorePut(t)
        \/ GenUpscalePut(t)

UpscaleWorkersBurst ==
    \E t \in UpscaleTasks : UpGet(t) \/ UpscaleBurstOk(t) \/ UpscaleFail(t) \/ UpStorePut(t)

\* the event loop runs every task that is ready, and every adapter call returns
FairSpecBurst ==
    /\ SpecBurst
    /\ WF_vars(Producer)
    /\ WF_vars(GenerateWorkersBurst)
    /\ WF_vars(UpscaleWorkersBurst)
    /\ WF_vars(StoreWorker)

\* C18: the upscale workers are always all in their loop (at get, in the
\* call, or at the store put, which never waits); whatever calls fail, again
\* and again every upscale request put so far has been retrieved and
\* acknowledged, and again and again no generate worker is in
\* upscale_queue.put, so a put that waits on the full queue gets done.
C18_UpscaleChannelDrains ==
    /\ [](/\ BagCardinality(upscaler_tasks) = upscaler_workers_count
          /\ \A t \in UpscaleTasks : t.pc \in {"get", "upscale", "store_put"})
    /\ []<>(gets["upscale"] = puts["upscale"] /\ dones["upscale"] = puts["upscale"])
    /\ []<>(GenAt("upscale_put") = 0)

\* all requests of a burst, one more than the upscale queue holds, are
\* acknowledged although the store worker has raised and upscaling calls have
\* failed
C18_Witness ==
    /\ dones["upscale"] = BurstImages
    /\ saving_task.pc = "raised"
    /\ upscale_failed # {}

(* ---- the small variant goes first --------------------------------------- *)

\* the store request the store worker retrieves in this step
StoreGets(r) ==
    /\ gets'["store"] # gets["store"]
    /\ store_thumbnails_queue # <<>>
    /\ r = Head(store_thumbnails_queue)

\* C19: an upscaled store request is put only after the small store request
\* of the same id, it is never ahead of it in the store queue, and the store
\* worker retrieves it only after it has retrieved and written the small one.
C19_SmallRetrievedFirst ==
    /\ [][\A r \in BigPuts' \ BigPuts : HasSmallPut(r)]_vars
    /\ [][\A r \in BigPuts : StoreGets(r) => r.id \in SmallIds]_vars
    /\ [](\A i \in 1 .. Len(store_thumbnails_queue) :
              \A j \in 1 .. Len(store_thumbnails_queue) :
                  (/\ store_thumbnails_queue[i].id = store_thumbnails_queue[j].id
                   /\ ~store_thumbnails_queue[i].is_upscaled
                   /\ store_thumbnails_queue[j].is_upscaled) => i < j)
    /\ [](BigIds \subseteq SmallIds)

\* the upscaled variant of an image is written while small variants of later
\* images are still queued
C19_Witness ==
    /\ BigIds # {}
    /\ \E i \in 1 .. Len(store_thumbnails_queue) : ~store_thumbnails_queue[i].is_upscaled

====
